---------------------------- MODULE Spec2Model ----------------------------
(***************************************************************************)
(* TOS Big Data API server: credential and token service (auth.py) and the *)
(* request pipeline of the resource endpoints (main.py, database.py).      *)
(*                                                                         *)
(* Time is counted in ticks of 1/TicksPerSec second since the epoch, so    *)
(* that the truncation to whole seconds done by the JWT library is         *)
(* visible.  The clock is sampled: a few steps at the start of each token  *)
(* lifetime, and jumps of one default token lifetime.  The direct calls of *)
(* auth.py are followed tick by tick, the API server second by second.     *)
(***************************************************************************)
EXTENDS Integers, Sequences, FiniteSets, TLC

\* ------------------------------------------------------------------ bounds
\* clock resolution: ticks per second
TicksPerSec == 2
\* seconds the clock may advance step by step after each jump
MaxSubSeconds == 1
\* jumps of one default token lifetime the clock may take
MaxLifetimes == 1
\* tokens issued by login that clients hold at the same time
MaxTokens == 2
\* rows a relation of the data store holds
MaxRows == 2
\* pages a client reads of one listing
MaxPage == 3
\* largest page size a client asks for
MaxLimit == 2
\* optional arguments one request sends
MaxSupplied == 2
\* calls of the methods of db since the process started
MaxCalls == 3
\* the handlers that run at the same time
MaxConcurrent == 2

\* --------------------------------------------------------------- constants
ACCESS_TOKEN_EXPIRE_HOURS == 8
SecondsPerHour == 3600

\* timedelta(hours = h), in ticks
hours(h) == h * SecondsPerHour * TicksPerSec
\* timedelta(seconds = s), in ticks
seconds(s) == s * TicksPerSec

\* ---------------------------------------------------------- option values
\* Python None for a string, for a timedelta and for a query parameter
Absent == "<None>"
NoDelta == 0 - 1
NoParam == 0 - 1

\* ------------------------------------------------------------- user registry
LegacySentinel == "6504E4EF9274BDE48162B6F2BE0FDF0"

\* class User
User(username, password_hash, full_name, disabled) ==
    [username |-> username, password_hash |-> password_hash,
     full_name |-> full_name, disabled |-> disabled]

Usernames == {"abc", "admin"}

\* USERS_DB as the source writes it; the disabled flags are the only part a
\* deployment is given to vary (class User declares the field)
USERS_DB_with(disabledUsers) ==
    [u \in Usernames |->
        IF u = "abc"
        THEN User("abc", LegacySentinel, "Admin User", u \in disabledUsers)
        ELSE User("admin", "admin123", "System Admin", u \in disabledUsers)]

Registries == {USERS_DB_with(d) : d \in SUBSET Usernames}

\* credentials a client may type
Passwords == {LegacySentinel, "admin123", "wrong_password"}
LoginNames == Usernames \cup {"invalid_user"}

\* --------------------------------------------------------- password check
\* passlib identifies a bcrypt hash by its "$2b$" prefix; a stored value
\* without it cannot be identified
BcryptOf(plain) == "$2b$12$" \o plain
IsBcryptHash(h) == \E p \in Passwords : h = BcryptOf(p)

\* pwd_context.verify: "true" / "false", or "raise" (UnknownHashError)
pwd_context_verify(plain, hashed) ==
    IF IsBcryptHash(hashed)
    THEN (IF hashed = BcryptOf(plain) THEN "true" ELSE "false")
    ELSE "raise"

verify_password(plain_password, hashed_password) ==
    IF hashed_password = LegacySentinel
    THEN (IF plain_password = hashed_password THEN "true" ELSE "false")
    ELSE pwd_context_verify(plain_password, hashed_password)

\* USERS_DB.get(username): the entry, or None
get_user(db, username) ==
    IF username \in DOMAIN db THEN <<db[username]>> ELSE <<>>

\* [kind: "user" | "none" | "raise", username]
authenticate_user(db, username, password) ==
    LET user == get_user(db, username) IN
    IF user = <<>> THEN [kind |-> "none", username |-> Absent]
    ELSE LET ok == verify_password(password, user[1].password_hash) IN
         IF ok = "raise" THEN [kind |-> "raise", username |-> Absent]
         ELSE IF ok = "false" THEN [kind |-> "none", username |-> Absent]
         ELSE [kind |-> "user", username |-> user[1].username]

\* ------------------------------------------------------------------ tokens
\* the exp claim of a payload: absent, an integer, or a non-numeric string
ExpAbsent == [kind |-> "absent", v |-> 0]
ExpInt(n) == [kind |-> "int", v |-> n]
ExpText == [kind |-> "text", v |-> 0]

\* a bearer string: a JWT (three segments, JSON payload) or anything else,
\* with a signature that is or is not the HMAC of its content under SECRET_KEY
Token(fmt, sig, sub, exp) == [fmt |-> fmt, sig |-> sig, sub |-> sub, exp |-> exp]
NoToken == Token("none", "none", Absent, ExpAbsent)

\* calendar.timegm(dt.utctimetuple()): whole seconds, the fraction is dropped
timegm(dt) == dt \div TicksPerSec

\* jose.jwt.encode: a datetime exp claim becomes timegm of it, then signs
jwt_encode(sub, expire) == Token("jwt", "valid", sub, ExpInt(timegm(expire)))

create_access_token(sub, expires_delta, utcnow) ==
    LET expire == IF expires_delta # NoDelta /\ expires_delta # 0
                  THEN utcnow + expires_delta
                  ELSE utcnow + hours(ACCESS_TOKEN_EXPIRE_HOURS)
    IN jwt_encode(sub, expire)

\* the comparison of _validate_exp written the wrong way round
validate_exp_reversed(exp, nowsec) == nowsec < exp

\* jose.jwt._validate_exp: TRUE when ExpiredSignatureError is raised
validate_exp(exp, nowsec) == exp < nowsec

\* jose.jwt.decode: "ok", or the JWTError raised
jwt_decode(token, utcnow) ==
    IF token.fmt # "jwt" THEN "JWTError"
    ELSE IF token.sig # "valid" THEN "JWTError"
    ELSE IF token.exp.kind = "text" THEN "JWTClaimsError"
    ELSE IF token.exp.kind = "int" /\ validate_exp(token.exp.v, timegm(utcnow))
         THEN "ExpiredSignatureError"
    ELSE "ok"

\* datetime.fromtimestamp(s): the naive local time of the instant, in ticks
fromtimestamp(s, tzOffset) == (s + tzOffset) * TicksPerSec

\* [kind: "TokenData" | "None" | "raise", username, exp, why]
VerifyResult(kind, username, exp, why) ==
    [kind |-> kind, username |-> username, exp |-> exp, why |-> why]

verify_token(token, utcnow, tzOffset) ==
    LET d == jwt_decode(token, utcnow) IN
    IF d # "ok" THEN VerifyResult("None", Absent, 0, d)
    ELSE IF token.exp.kind # "int" THEN VerifyResult("raise", Absent, 0, "TypeError")
    ELSE IF token.sub = Absent THEN VerifyResult("None", Absent, 0, "no sub")
    ELSE VerifyResult("TokenData", token.sub,
                      fromtimestamp(token.exp.v, tzOffset), "ok")


\* tokens a client can present without having logged in.  The validly signed
\* ones presuppose the signing key, whose default value is in auth.py
FarFuture == timegm(hours(ACCESS_TOKEN_EXPIRE_HOURS) * (MaxLifetimes + 2))
Garbage == Token("garbage", "none", Absent, ExpAbsent)
BadSignature == Token("jwt", "invalid", "abc", ExpInt(FarFuture))
SignedNoExp == Token("jwt", "valid", "abc", ExpAbsent)
SignedNoSub == Token("jwt", "valid", Absent, ExpInt(FarFuture))
SignedTextExp == Token("jwt", "valid", "abc", ExpText)
ForgedTokens == {Garbage, BadSignature, SignedNoExp, SignedNoSub, SignedTextExp}
\* those of them sent to the API server
ForgedBearers == {BadSignature, SignedNoExp, SignedNoSub}

\* local-time offsets of the host, in seconds east of UTC; the offset in
\* force is read at each conversion
TZOffsets == {0, 7 * SecondsPerHour}

\* ttl arguments of create_access_token
Deltas == {NoDelta, 0, seconds(1), hours(ACCESS_TOKEN_EXPIRE_HOURS)}

\* --------------------------------------------------------------- endpoints
ListEndpoints ==
    {"get_customers", "get_cargo_categories", "get_cargo_types",
     "get_handling_methods", "get_classes", "get_ships",
     "get_bulk_gate_volumes", "get_bulk_quay_volumes",
     "get_container_quay_volumes"}

ByIdEndpoints ==
    {"get_customer_by_id", "get_cargo_by_id", "get_cargo_type_by_id",
     "get_handling_method_by_id", "get_class_by_id", "get_ship_by_imo"}

ResourceEndpoints == ListEndpoints \cup ByIdEndpoints
Endpoints == ResourceEndpoints \cup {"protected_route"}

\* one handler (get_ships) written without the dependency
DependsOnCurrentUser_but_one(e) ==
    e \in (ResourceEndpoints \ {"get_ships"}) \cup {"protected_route"}

\* the handler's signature has current_user = Depends(get_current_user)
DependsOnCurrentUser(e) == e \in ResourceEndpoints \cup {"protected_route"}

\* the handler's signature declares page and limit
DeclaresPaging(e) == e \in ListEndpoints \ {"get_customers"}

\* Query(1, ge=1)
ValidPage(page) == page = NoParam \/ page >= 1
\* limit declared without its upper bound
ValidLimit_no_le(limit) == limit = NoParam \/ limit >= 1

\* Query(.., ge=1, le=100)
ValidLimit(limit) == limit = NoParam \/ (limit >= 1 /\ limit <= 100)

\* page and limit values a client may send (NoParam: not sent)
Pages == {NoParam, 0}
Limits == {NoParam, 0, 100, 101}

\* Authorization header: none, or "<scheme> <token>"
Header(scheme, token) == [scheme |-> scheme, token |-> token]
NoHeader == Header("none", NoToken)

\* status HTTPBearer answers when the header is missing or not a bearer
\* header: 403 in FastAPI releases before 0.122, 401 from then on
HTTPBearerRejectStatus == {401, 403}

\* ----------------------------------------------------------- column values
\* a value of a column, of a query parameter or of a DTO field: NULL / None,
\* an integer, a text, or a datetime (n: its day)
Val(t, n, s) == [t |-> t, n |-> n, s |-> s]
NULL == Val("null", 0, "")
IntV(n) == Val("int", n, "")
StrV(s) == Val("str", 0, s)
TimeV(n) == Val("time", n, "")

\* Python truth value: None, 0 and '' are false
Truthy(v) ==
    ~(v.t = "null" \/ (v.t = "int" /\ v.n = 0) \/ (v.t = "str" /\ v.s = ""))

\* a or b
or_(a, b) == IF Truthy(a) THEN a ELSE b

\* datetime.isoformat() and date texts "YYYY-MM-DD" of the day n
DateText(n) == "2024-01-0" \o ToString(n)
isoformat(v) == StrV(DateText(v.n) \o "T00:00:00")

\* str(v)
str(v) ==
    IF v.t = "null" THEN StrV("None")
    ELSE IF v.t = "int" THEN StrV(ToString(v.n))
    ELSE IF v.t = "time" THEN StrV(DateText(v.n) \o " 00:00:00")
    ELSE v

\* dict.get(c, default)
get(row, c, default) == IF c \in DOMAIN row THEN row[c] ELSE default

\* the integers that occur as keys and parameters
Keys == {0, 1, 2}

\* int(s) of a text: [ok, n]; ok is FALSE where Python raises ValueError.
\* The numerals are the decimal texts of the keys, also with a sign or a
\* leading zero
ParsedInt(ok, n) == [ok |-> ok, n |-> n]
Numerals(n) == {ToString(n), "+" \o ToString(n), "0" \o ToString(n)}
int(s) ==
    IF \E n \in Keys : s \in Numerals(n)
    THEN ParsedInt(TRUE, CHOOSE n \in Keys : s \in Numerals(n))
    ELSE ParsedInt(FALSE, 0)

\* ------------------------------------------------------------ the database
\* the FROM clauses of the statements in main.py
Partner == "dbo.Partner"
vwCargo == "dbo.vwCargo"
vwTallyShiftAll == "dbo.vwTallyShiftAll"
Vessel == "dbo.Vessel"
TallyJoinCargo == "dbo.vwTallyShiftAll t LEFT JOIN dbo.vwCargo c"
Froms == {Partner, vwCargo, vwTallyShiftAll, Vessel, TallyJoinCargo}

\* the columns of each that a predicate or a row mapping of main.py reads
Columns(f) ==
    CASE f = Partner ->
           {"partnerCode", "partnerFullName", "partnerShortName",
            "partnerFullNameEN", "partnerTaxCode", "partnerTel",
            "partnerAddress", "partnerEmail", "rowDeleted", "updateTime"}
      [] f = vwCargo ->
           {"cargoId", "cargoGroupId", "cargoGroupCode", "cargoName",
            "cargoGroupName", "rowDeleted", "createTime", "updateTime"}
      [] f = vwTallyShiftAll ->
           {"jobMethodCode", "jobMethodName", "cargoDirectCode",
            "cargoDirectName", "rowDeleted", "createTime", "updateTime"}
      [] f = Vessel ->
           {"vesselId", "numberIMO", "vesselName", "countryId", "vesselLOA",
            "vesselBEAM", "vesselGT", "vesselTypeId", "vesselDWT", "ownerId",
            "rowDeleted", "createTime", "updateTime"}
      [] f = TallyJoinCargo ->
           {"shiftDate", "tallyShiftId", "consigneeId", "consigneeCode",
            "cargoId", "jobMethodId", "vesselId", "agencyId", "cargoDirectId",
            "weightNetSum", "quantityTotalSum", "cargoGroupCode",
            "cargoGroupId", "vesselCode", "jobMethodCode", "rowDeleted"}

\* column types, as the handlers use the columns
TimeColumns == {"createTime", "updateTime", "shiftDate"}
NumericColumns ==
    {"cargoId", "cargoGroupId", "vesselId", "tallyShiftId", "consigneeId",
     "jobMethodId", "agencyId", "cargoDirectId", "countryId", "vesselTypeId",
     "ownerId", "vesselLOA", "vesselBEAM", "vesselGT", "vesselDWT",
     "weightNetSum", "quantityTotalSum", "rowDeleted"}

\* the columns that hold a row's numeric key, its code and its description
KeyColumns == {"cargoId", "cargoGroupId", "vesselId", "tallyShiftId"}
CodeColumns ==
    {"partnerCode", "cargoGroupCode", "jobMethodCode", "cargoDirectCode",
     "numberIMO"}
DetailColumns ==
    {"partnerFullName", "cargoGroupName", "jobMethodName", "cargoDirectName",
     "vesselName", "consigneeCode"}

ContainerGroup == "Hang Container"

\* the value rowDeleted has in the rows in use: NULL in vwTallyShiftAll, 0
\* in the other relations (the comments at main.py 1011 and 1180)
Active(f) ==
    IF f \in {vwTallyShiftAll, TallyJoinCargo} THEN NULL ELSE IntV(0)

\* the column that identifies a row of the relation, where main.py shows one
PrimaryKey(f) ==
    CASE f = vwCargo -> "cargoId"
      [] f = Vessel -> "vesselId"
      [] f = TallyJoinCargo -> "tallyShiftId"
      [] OTHER -> "none"

\* a row in use: its identity pk, its numeric key, code and description
KeyRow(f, pk, key, code, detail) ==
    [c \in Columns(f) |->
        IF c = PrimaryKey(f) THEN IntV(pk)
        ELSE IF c \in KeyColumns THEN IntV(key)
        ELSE IF c = "shiftDate" THEN TimeV(key)
        ELSE IF c \in CodeColumns THEN StrV(code)
        ELSE IF c \in DetailColumns THEN StrV(detail)
        ELSE IF c = "rowDeleted" THEN Active(f)
        ELSE IF c \in TimeColumns THEN TimeV(1)
        ELSE IF c \in NumericColumns THEN IntV(1)
        ELSE StrV("x")]

\* two rows that tie on key and code, and one whose code is the numeral of
\* the others' key
KeyRows(f) ==
    {KeyRow(f, 1, 1, ContainerGroup, "N1"),
     KeyRow(f, 2, 1, ContainerGroup, "N2"), KeyRow(f, 3, 2, "1", "N1")}

\* row with the columns cols set to NULL, or to 0 / '' / 1 (rowDeleted)
Blanked(row, cols, kind) ==
    [c \in DOMAIN row |->
        IF c \notin cols THEN row[c]
        ELSE IF kind = "null" \/ c \in TimeColumns THEN NULL
        ELSE IF c = "rowDeleted" THEN (IF row[c] = NULL THEN IntV(0) ELSE IntV(1))
        ELSE IF c \in NumericColumns THEN IntV(0)
        ELSE StrV("")]

\* the pairs of columns one mapping expression reads
ReadTogether ==
    {{"partnerFullName", "partnerShortName"}, {"cargoName", "cargoGroupName"},
     {"cargoGroupId", "cargoGroupCode"}}

BlankRows(f) ==
    LET row == KeyRow(f, 1, 1, ContainerGroup, "N1") IN
    {Blanked(row, {c}, kind) : c \in Columns(f), kind \in {"null", "zero"}}
      \cup {Blanked(row, cs, "null") : cs \in {p \in ReadTogether : p \subseteq Columns(f)}}

\* the database: the rows each FROM clause ranges over
TableOf(f, rows) == [g \in Froms |-> IF g = f THEN rows ELSE {}]

\* up to MaxRows rows in use in one relation
KeyTables ==
    UNION {{TableOf(f, rows) :
               rows \in {R \in SUBSET KeyRows(f) : Cardinality(R) <= MaxRows}} :
           f \in Froms}

\* one row with a blank column
BlankTables == UNION {{TableOf(f, {row}) : row \in BlankRows(f)} : f \in Froms}

Tables == KeyTables \cup BlankTables

\* -------------------------------------------------------------- statements
\* a predicate of a WHERE clause: column, operator, literal.  The operators
\* written with "?" take their operands from the parameter tuple
Pred(col, op, lit) == [col |-> col, op |-> op, lit |-> lit]

ParamCount(p) ==
    IF p.op \in {"= ?", ">= ?", "<= ?", "LIKE ?"} THEN 1
    ELSE IF p.op = "LIKE ? OR LIKE ?" THEN 2
    ELSE 0

\* a sort key of an ORDER BY clause
Asc(col) == [col |-> col, desc |-> FALSE]
Desc(col) == [col |-> col, desc |-> TRUE]

\* an optional filter: the handler's argument and the predicate it appends
Filter(arg, pred) == [arg |-> arg, pred |-> pred]

\* the statement text handed to db.execute_query, and its parameter tuple;
\* window: the text ends with OFFSET ? ROWS FETCH NEXT ? ROWS ONLY
Statement(verb, select, from, where, groupBy, orderBy, window, params) ==
    [verb |-> verb, select |-> select, from |-> from, where |-> where,
     groupBy |-> groupBy, orderBy |-> orderBy, window |-> window,
     params |-> params]

From(e) ==
    CASE e \in {"get_customers", "get_customer_by_id"} -> Partner
      [] e \in {"get_cargo_categories", "get_cargo_by_id", "get_cargo_types",
                "get_cargo_type_by_id"} -> vwCargo
      [] e \in {"get_handling_methods", "get_handling_method_by_id",
                "get_classes", "get_class_by_id"} -> vwTallyShiftAll
      [] e \in {"get_ships", "get_ship_by_imo"} -> Vessel
      [] e \in {"get_bulk_gate_volumes", "get_bulk_quay_volumes",
                "get_container_quay_volumes"} -> TallyJoinCargo

\* the columns of the select list
SelectList(e) ==
    CASE e = "get_customer_by_id" ->
           {"partnerCode", "partnerShortName", "partnerFullName",
            "partnerFullNameEN", "rowDeleted", "updateTime"}
      [] e \in {"get_cargo_types", "get_cargo_type_by_id"} ->
           {"cargoGroupId", "cargoGroupCode", "cargoGroupName", "createTime",
            "updateTime"}
      [] e \in {"get_handling_methods", "get_handling_method_by_id"} ->
           {"jobMethodCode", "jobMethodName", "createTime", "updateTime"}
      [] e \in {"get_classes", "get_class_by_id"} ->
           {"cargoDirectCode", "cargoDirectName", "createTime", "updateTime"}
      [] e \in {"get_ships", "get_ship_by_imo"} ->
           Columns(Vessel) \ {"rowDeleted"}
      [] e = "get_bulk_gate_volumes" ->
           {"shiftDate", "tallyShiftId", "consigneeId", "consigneeCode",
            "cargoId", "jobMethodId", "vesselId", "weightNetSum",
            "cargoGroupId"}
      [] e = "get_bulk_quay_volumes" ->
           {"shiftDate", "tallyShiftId", "consigneeId", "consigneeCode",
            "cargoId", "jobMethodId", "vesselId", "agencyId", "cargoDirectId",
            "weightNetSum", "cargoGroupCode", "cargoGroupId"}
      [] e = "get_container_quay_volumes" ->
           {"shiftDate", "tallyShiftId", "consigneeId", "consigneeCode",
            "cargoId", "jobMethodId", "vesselId", "agencyId", "cargoDirectId",
            "weightNetSum", "quantityTotalSum", "cargoGroupCode",
            "cargoGroupId"}
      [] OTHER -> Columns(From(e))

RowDeletedIsZero == Pred("rowDeleted", "= lit", IntV(0))
RowDeletedIsNull == Pred("rowDeleted", "IS NULL", NULL)

\* the predicates the statement text has before the optional ones
FixedBefore(e) ==
    CASE e = "get_cargo_types" ->
           <<RowDeletedIsZero, Pred("cargoGroupId", "IS NOT NULL", NULL),
             Pred("cargoGroupName", "IS NOT NULL", NULL)>>
      [] e = "get_handling_methods" ->
           <<RowDeletedIsNull, Pred("jobMethodCode", "IS NOT NULL", NULL),
             Pred("jobMethodName", "IS NOT NULL", NULL)>>
      [] e = "get_classes" ->
           <<RowDeletedIsNull, Pred("cargoDirectCode", "IS NOT NULL", NULL),
             Pred("cargoDirectName", "IS NOT NULL", NULL)>>
      [] e = "get_ships" -> <<RowDeletedIsZero>>
      [] e = "get_bulk_gate_volumes" ->
           <<RowDeletedIsNull, Pred("weightNetSum", "> lit", IntV(0)),
             Pred("vesselCode", "LIKE ? OR LIKE ?", NULL)>>
      [] e = "get_bulk_quay_volumes" ->
           <<RowDeletedIsNull, Pred("weightNetSum", "> lit", IntV(0)),
             Pred("jobMethodCode", "LIKE ?", NULL),
             Pred("cargoGroupCode", "IS NULL OR <> lit", StrV("Container"))>>
      [] e = "get_container_quay_volumes" ->
           <<RowDeletedIsNull, Pred("weightNetSum", "> lit", IntV(0)),
             Pred("jobMethodCode", "LIKE ?", NULL),
             Pred("cargoGroupCode", "= lit", StrV(ContainerGroup))>>
      [] e = "get_customer_by_id" -> <<Pred("partnerCode", "= ?", NULL), RowDeletedIsZero>>
      [] e = "get_cargo_by_id" -> <<Pred("cargoId", "= ?", NULL), RowDeletedIsZero>>
      [] e = "get_handling_method_by_id" ->
           <<RowDeletedIsNull, Pred("jobMethodCode", "= ?", NULL)>>
      [] e = "get_class_by_id" ->
           <<RowDeletedIsNull, Pred("cargoDirectCode", "= ?", NULL)>>
      [] e = "get_ship_by_imo" ->
           <<RowDeletedIsZero, Pred("numberIMO", "= ?", NULL)>>
      [] OTHER -> <<>>

\* the parameters the handler starts its list with
BaseParams(e) ==
    CASE e = "get_bulk_gate_volumes" -> <<StrV("%BAI%"), StrV("%KHO%")>>
      [] e \in {"get_bulk_quay_volumes", "get_container_quay_volumes"} ->
           <<StrV("%TAU%")>>
      [] OTHER -> <<>>

\* the optional filters, in the order of the handler's if statements
Filters(e) ==
    CASE e = "get_customers" ->
           <<Filter("startDate", Pred("updateTime", ">= ?", NULL)),
             Filter("endDate", Pred("updateTime", "<= ?", NULL)),
             Filter("customerTaxCode", Pred("partnerTaxCode", "= ?", NULL))>>
      [] e = "get_cargo_categories" ->
           <<Filter("cargoTypeId", Pred("cargoGroupId", "= ?", NULL))>>
      [] e = "get_bulk_gate_volumes" ->
           <<Filter("startDate", Pred("shiftDate", ">= ?", NULL)),
             Filter("endDate", Pred("shiftDate", "<= ?", NULL)),
             Filter("companyId", Pred("consigneeId", "= ?", NULL)),
             Filter("handlingMethodId", Pred("jobMethodId", "= ?", NULL))>>
      [] e \in {"get_bulk_quay_volumes", "get_container_quay_volumes"} ->
           <<Filter("startDate", Pred("shiftDate", ">= ?", NULL)),
             Filter("endDate", Pred("shiftDate", "<= ?", NULL)),
             Filter("companyId", Pred("consigneeId", "= ?", NULL)),
             Filter("shipId", Pred("vesselId", "= ?", NULL)),
             Filter("handlingMethodId", Pred("jobMethodId", "= ?", NULL))>>
      [] OTHER -> <<>>

\* get_customers without its `query += " AND rowDeleted = 0"`
FixedAfter_customers_unfiltered(e) ==
    IF e = "get_cargo_categories" THEN <<RowDeletedIsZero>> ELSE <<>>

\* the predicates appended after the optional ones
FixedAfter(e) ==
    IF e \in {"get_customers", "get_cargo_categories"}
    THEN <<RowDeletedIsZero>> ELSE <<>>

GroupBy(e) ==
    CASE e \in {"get_cargo_types", "get_cargo_type_by_id"} ->
           {"cargoGroupId", "cargoGroupCode", "cargoGroupName"}
      [] e \in {"get_handling_methods", "get_handling_method_by_id"} ->
           {"jobMethodCode", "jobMethodName"}
      [] e \in {"get_classes", "get_class_by_id"} ->
           {"cargoDirectCode", "cargoDirectName"}
      [] OTHER -> {}

OrderBy(e) ==
    CASE e = "get_customers" -> <<Asc("partnerCode")>>
      [] e = "get_cargo_categories" -> <<Asc("cargoId")>>
      [] e = "get_cargo_types" -> <<Asc("cargoGroupId")>>
      [] e = "get_handling_methods" -> <<Asc("jobMethodCode")>>
      [] e = "get_classes" -> <<Asc("cargoDirectCode")>>
      [] e = "get_ships" -> <<Asc("vesselId")>>
      [] e \in {"get_bulk_gate_volumes", "get_bulk_quay_volumes",
                "get_container_quay_volumes"} ->
           <<Desc("shiftDate"), Asc("tallyShiftId")>>
      [] OTHER -> <<>>

\* the handler's optional arguments; an argument not sent is None
FilterArgs ==
    {"startDate", "endDate", "customerTaxCode", "companyId", "customerType",
     "cargoTypeId", "shipId", "handlingMethodId"}
NoFilters == [a \in FilterArgs |-> NULL]

\* the filters the parameters and docstring of get_customers list
CustomerFilterArgs ==
    {"startDate", "endDate", "customerTaxCode", "companyId", "customerType"}

\* the filters whose `if <argument>:` test passes, in order
RECURSIVE Applied(_, _)
Applied(fs, filters) ==
    IF fs = <<>> THEN <<>>
    ELSE (IF Truthy(filters[Head(fs).arg]) THEN <<Head(fs)>> ELSE <<>>)
           \o Applied(Tail(fs), filters)

\* the defaults of Query(1, ..) and Query(50 / 20, ..)
PageOr1(page) == IF page = NoParam THEN 1 ELSE page
LimitOrDefault(e, limit) ==
    IF limit # NoParam THEN limit
    ELSE IF e = "get_cargo_categories" THEN 50 ELSE 20

\* a handler that deletes in place of selecting
Verb_one_delete(e) == IF e = "get_ship_by_imo" THEN "DELETE" ELSE "SELECT"

\* the first word of the handler's statement text
Verb(e) == "SELECT"

\* params.extend written with the two values exchanged
WindowParams_limit_first(e, page, limit) ==
    <<IntV(LimitOrDefault(e, limit)),
      IntV((PageOr1(page) - 1) * LimitOrDefault(e, limit))>>

\* offset = (page - 1) * limit; params.extend([offset, limit])
WindowParams(e, page, limit) ==
    <<IntV((PageOr1(page) - 1) * LimitOrDefault(e, limit)),
      IntV(LimitOrDefault(e, limit))>>

\* the statement and parameters a list handler builds
build_list_query(e, page, limit, filters) ==
    LET applied == Applied(Filters(e), filters)
    IN Statement(Verb(e), SelectList(e), From(e),
                 FixedBefore(e) \o [i \in 1..Len(applied) |-> applied[i].pred]
                    \o FixedAfter(e),
                 GroupBy(e), OrderBy(e), DeclaresPaging(e),
                 BaseParams(e)
                    \o [i \in 1..Len(applied) |-> filters[applied[i].arg]]
                    \o (IF DeclaresPaging(e)
                        THEN WindowParams(e, page, limit) ELSE <<>>))

\* the number of "?" in the predicates where[1..i]
RECURSIVE Placeholders(_, _)
Placeholders(where, i) ==
    IF i = 0 THEN 0 ELSE Placeholders(where, i - 1) + ParamCount(where[i])

\* the statement of a by-id handler, for the parameter param
build_by_id_query(e, param) ==
    Statement(Verb(e), SelectList(e), From(e), FixedBefore(e), GroupBy(e),
              <<>>, FALSE, <<param>>)

\* get_cargo_type_by_id: the statement on the numeric key, and the one on
\* the code
cargo_type_by_number(n) ==
    Statement(Verb("get_cargo_type_by_id"), SelectList("get_cargo_type_by_id"), vwCargo,
              <<Pred("cargoGroupId", "= ?", NULL), RowDeletedIsZero>>,
              GroupBy("get_cargo_type_by_id"), <<>>, FALSE, <<IntV(n)>>)
cargo_type_by_code(code) ==
    Statement(Verb("get_cargo_type_by_id"), SelectList("get_cargo_type_by_id"), vwCargo,
              <<Pred("cargoGroupCode", "= ?", NULL), RowDeletedIsZero>>,
              GroupBy("get_cargo_type_by_id"), <<>>, FALSE, <<StrV(code)>>)

\* ------------------------------------------------- the data store's answers
\* the day a value names: of a date or datetime text, the day it is the text
\* of
Days == 1..9
DayTexts(n) == {DateText(n), isoformat(TimeV(n)).s}
IsDay(p) == p.t = "time" \/ (p.t = "str" /\ \E n \in Days : p.s \in DayTexts(n))
DayOf(p) ==
    IF p.t = "time" THEN p.n ELSE CHOOSE n \in Days : p.s \in DayTexts(n)

\* column = operand, with the implicit conversion between number and text
SqlEq(v, p) == v.t # "null" /\ p.t # "null" /\ str(v) = str(p)

\* does row satisfy the predicate p with the operands args
Holds(row, p, args) ==
    LET v == row[p.col] IN
    CASE p.op = "= ?" -> SqlEq(v, args[1])
      [] p.op = ">= ?" -> v.t # "null" /\ IsDay(args[1]) /\ v.n >= DayOf(args[1])
      [] p.op = "<= ?" -> v.t # "null" /\ IsDay(args[1]) /\ v.n <= DayOf(args[1])
      [] p.op \in {"LIKE ?", "LIKE ? OR LIKE ?"} -> v.t = "str" /\ v.s # ""
      [] p.op = "= lit" -> SqlEq(v, p.lit)
      [] p.op = "> lit" -> v.t = "int" /\ v.n > p.lit.n
      [] p.op = "IS NULL" -> v.t = "null"
      [] p.op = "IS NOT NULL" -> v.t # "null"
      [] p.op = "IS NULL OR <> lit" -> v.t = "null" \/ ~SqlEq(v, p.lit)

\* does row satisfy where[i..], the operands starting at params[k]
RECURSIVE MatchesFrom(_, _, _, _, _)
MatchesFrom(row, where, params, i, k) ==
    IF i > Len(where) THEN TRUE
    ELSE /\ Holds(row, where[i],
                  SubSeq(params, k, k + ParamCount(where[i]) - 1))
         /\ MatchesFrom(row, where, params, i + 1, k + ParamCount(where[i]))

Matching(tbl, stmt) ==
    {row \in tbl[stmt.from] : MatchesFrom(row, stmt.where, stmt.params, 1, 1)}

\* MIN(col) / MAX(col) over the rows G: NULLs are skipped
MinOf(G, col) ==
    LET ns == {r[col].n : r \in {x \in G : x[col].t # "null"}} IN
    IF ns = {} THEN NULL ELSE TimeV(CHOOSE n \in ns : \A m \in ns : n <= m)
MaxOf(G, col) ==
    LET ns == {r[col].n : r \in {x \in G : x[col].t # "null"}} IN
    IF ns = {} THEN NULL ELSE TimeV(CHOOSE n \in ns : \A m \in ns : n >= m)

\* the row of the group of row among the rows M
GroupRow(M, row, stmt) ==
    LET G == {r \in M : \A c \in stmt.groupBy : r[c] = row[c]} IN
    [c \in stmt.select |->
        IF c \in stmt.groupBy THEN row[c]
        ELSE IF c = "createTime" THEN MinOf(G, c) ELSE MaxOf(G, c)]

\* the rows the statement selects, before ordering
ResultSet(tbl, stmt) ==
    LET M == Matching(tbl, stmt) IN
    IF stmt.groupBy = {} THEN {[c \in stmt.select |-> row[c]] : row \in M}
    ELSE {GroupRow(M, row, stmt) : row \in M}

\* the collation of the texts in use
TextOrder == <<"", "1", ContainerGroup, "N1", "N2", "x">>
SortKey(v) ==
    IF v.t = "null" THEN 0 - 1
    ELSE IF v.t = "str" /\ IsDay(v) THEN DayOf(v)
    ELSE IF v.t = "str" THEN CHOOSE i \in 1..Len(TextOrder) : TextOrder[i] = v.s
    ELSE v.n

\* a comes strictly before b under the ORDER BY clause
Precedes(a, b, orderBy) ==
    \E i \in 1..Len(orderBy) :
       /\ \A j \in 1..(i - 1) : a[orderBy[j].col] = b[orderBy[j].col]
       /\ IF orderBy[i].desc
          THEN SortKey(a[orderBy[i].col]) > SortKey(b[orderBy[i].col])
          ELSE SortKey(a[orderBy[i].col]) < SortKey(b[orderBy[i].col])

\* the orders the server may return the rows R in: every order that agrees
\* with the ORDER BY clause; rows that tie on the sort keys come in any order
Orderings(R, orderBy) ==
    {q \in [1..Cardinality(R) -> R] :
        /\ \A i, j \in DOMAIN q : i # j => q[i] # q[j]
        /\ \A i, j \in DOMAIN q : i < j => ~Precedes(q[j], q[i], orderBy)}

Min(a, b) == IF a <= b THEN a ELSE b

\* OFFSET ? ROWS FETCH NEXT ? ROWS ONLY: the last two parameters
Window(q, stmt) ==
    IF ~stmt.window THEN q
    ELSE LET offset == stmt.params[Len(stmt.params) - 1].n
             limit == stmt.params[Len(stmt.params)].n
         IN SubSeq(q, offset + 1, Min(offset + limit, Len(q)))

\* execute_query converts each value that has isoformat to its ISO text
Converted(row) ==
    [c \in DOMAIN row |-> IF row[c].t = "time" THEN isoformat(row[c]) ELSE row[c]]

\* an exception db.execute_query may raise: pyodbc.Error is logged and
\* raised again, anything else passes through; UnicodeDecodeError (raised
\* when a fetched text cannot be decoded) is a ValueError
Failure(type, text) == [type |-> type, text |-> text]
NoFailure == Failure("none", "")
DbFailures ==
    {Failure("pyodbc.Error", "08001 login timeout expired"),
     Failure("UnicodeDecodeError", "utf-16-le codec cannot decode bytes")}
IsValueError(f) == f.type \in {"ValueError", "UnicodeDecodeError"}

\* what db.execute_query does for one call: returns rows, or raises
DbRows(rows) == [kind |-> "rows", rows |-> rows, error |-> NoFailure]
DbError(f) == [kind |-> "error", rows |-> <<>>, error |-> f]

execute_query(tbl, stmt) ==
    {DbRows([i \in DOMAIN w |-> Converted(w[i])]) :
        w \in {Window(q, stmt) : q \in Orderings(ResultSet(tbl, stmt), stmt.orderBy)}}
      \cup {DbError(f) : f \in DbFailures}

\* the database after the statement: a SELECT leaves it as it is, any other
\* verb removes or rewrites the rows the statement matches
Effect(tbl, stmt) ==
    IF stmt.verb = "SELECT" THEN tbl
    ELSE [tbl EXCEPT ![stmt.from] = @ \ Matching(tbl, stmt)]

\* ------------------------------------------------------------ row mapping
\* datetime.now().strftime("%Y-%m-%d")
Today == StrV("today")
Empty == StrV("")

\* str(x) if x else dflt
StrIf(v, dflt) == IF Truthy(v) THEN str(v) ELSE dflt
\* x.strftime("%Y-%m-%dT%H:%M:%S.%f")[:-3] + "Z" if x and hasattr(x,
\* 'strftime') else str(x) if x else None
ShipDate(v) ==
    IF Truthy(v) /\ v.t = "time" THEN StrV(DateText(v.n) \o "T00:00:00.000Z")
    ELSE IF Truthy(v) THEN str(v) ELSE NULL
\* x.strftime("%Y-%m-%d") if x and hasattr(x, 'strftime') else str(x) if x
\* else ''
FinishDate(v) ==
    IF Truthy(v) /\ v.t = "time" THEN StrV(DateText(v.n))
    ELSE IF Truthy(v) THEN str(v) ELSE Empty
\* float(x) if x else 0.0, int(x) if x else 0
NumberIf(v) == IF Truthy(v) THEN v ELSE IntV(0)

\* the metadata object is written as the fields isDeleted and modifiedDate
CustomerData(row) ==
    [reportDate |-> Today,
     customerCode |-> str(get(row, "partnerCode", Empty)),
     customerNameVN |-> or_(or_(get(row, "partnerFullName", Empty),
                                get(row, "partnerShortName", Empty)), Empty),
     customerNameEN |-> or_(get(row, "partnerFullNameEN", Empty), Empty),
     customerTaxCode |-> or_(get(row, "partnerTaxCode", Empty), Empty),
     customerPhoneNum |-> or_(get(row, "partnerTel", Empty), Empty),
     customerAddress |-> or_(get(row, "partnerAddress", Empty), Empty),
     customerEmail |-> or_(get(row, "partnerEmail", Empty), Empty),
     isCarrier |-> IntV(0), isAgent |-> IntV(0), customerStatus |-> Empty,
     isDeleted |-> or_(get(row, "rowDeleted", IntV(0)), IntV(0)),
     modifiedDate |-> get(row, "updateTime", NULL)]

CargoData(row) ==
    [reportDate |-> Today,
     cargoId |-> get(row, "cargoId", IntV(0)),
     cargoParentId |-> IntV(0),
     cargoTypeId |-> or_(get(row, "cargoGroupId", IntV(0)), IntV(0)),
     cargoName |-> or_(or_(get(row, "cargoName", Empty),
                           get(row, "cargoGroupName", Empty)), Empty),
     createdDate |-> get(row, "createTime", NULL),
     modifiedDate |-> get(row, "updateTime", NULL)]

CargoTypeData(row) ==
    [reportDate |-> Today,
     cargoTypeId |-> str(or_(get(row, "cargoGroupId", Empty),
                             get(row, "cargoGroupCode", Empty))),
     cargoTypeName |-> or_(get(row, "cargoGroupName", Empty), Empty),
     createdDate |-> get(row, "createTime", NULL),
     modifiedDate |-> get(row, "updateTime", NULL)]

HandlingMethodData(row) ==
    [reportDate |-> Today,
     handlingMethodId |-> str(get(row, "jobMethodCode", Empty)),
     handlingMethodName |-> or_(get(row, "jobMethodName", Empty), Empty),
     createdDate |-> get(row, "createTime", NULL),
     modifiedDate |-> get(row, "updateTime", NULL)]

ClassData(row) ==
    [reportDate |-> Today,
     classId |-> str(get(row, "cargoDirectCode", Empty)),
     className |-> or_(get(row, "cargoDirectName", Empty), Empty),
     createdDate |-> get(row, "createTime", NULL),
     modifiedDate |-> get(row, "updateTime", NULL)]

ShipData(row) ==
    [reportDate |-> Today,
     shipId |-> str(get(row, "vesselId", Empty)),
     shipIMO |-> or_(get(row, "numberIMO", Empty), Empty),
     shipFullName |-> or_(get(row, "vesselName", Empty), Empty),
     shipGroup |-> Empty,
     flagState |-> StrIf(get(row, "countryId", NULL), Empty),
     shipLOA |-> StrIf(get(row, "vesselLOA", NULL), NULL),
     shipBeam |-> StrIf(get(row, "vesselBEAM", NULL), NULL),
     shipGRT |-> StrIf(get(row, "vesselGT", NULL), NULL),
     shipType |-> StrIf(get(row, "vesselTypeId", NULL), NULL),
     shipDWT |-> StrIf(get(row, "vesselDWT", NULL), NULL),
     shipOwner |-> StrIf(get(row, "ownerId", NULL), NULL),
     createdDate |-> ShipDate(get(row, "createTime", NULL)),
     modifiedDate |-> ShipDate(get(row, "updateTime", NULL))]

BulkGateVolumeData(row) ==
    [reportDate |-> Today,
     finishDate |-> FinishDate(get(row, "shiftDate", NULL)),
     companyId |-> StrIf(get(row, "consigneeId", NULL), Empty),
     cargoTypeId |-> StrIf(get(row, "cargoGroupId", NULL), Empty),
     cargoCategoryId |-> StrIf(get(row, "cargoId", NULL), Empty),
     handlingMethodId |-> StrIf(get(row, "jobMethodId", NULL), Empty),
     bulkOriginId |-> StrIf(get(row, "vesselId", NULL), Empty),
     bulkWeight |-> NumberIf(get(row, "weightNetSum", NULL)),
     customerCode |-> or_(get(row, "consigneeCode", Empty), Empty)]

BulkQuayVolumeData(row) ==
    [reportDate |-> Today,
     finishDate |-> FinishDate(get(row, "shiftDate", NULL)),
     companyId |-> StrIf(get(row, "consigneeId", NULL), Empty),
     shipId |-> StrIf(get(row, "vesselId", NULL), Empty),
     shipAgentId |-> StrIf(get(row, "agencyId", NULL), Empty),
     cargoTypeId |-> StrIf(get(row, "cargoGroupId", NULL), Empty),
     cargoCategoryId |-> StrIf(get(row, "cargoId", NULL), Empty),
     handlingMethodId |-> StrIf(get(row, "jobMethodId", NULL), Empty),
     shipClassId |-> StrIf(get(row, "cargoDirectId", NULL), Empty),
     bulkOriginId |-> StrIf(get(row, "vesselId", NULL), Empty),
     bulkWeight |-> NumberIf(get(row, "weightNetSum", NULL))]

ContainerQuayVolumeData(row) ==
    [reportDate |-> Today,
     companyId |-> StrIf(get(row, "consigneeId", NULL), Empty),
     shipId |-> StrIf(get(row, "vesselId", NULL), Empty),
     classId |-> StrIf(get(row, "cargoDirectId", NULL), Empty),
     originId |-> StrIf(get(row, "vesselId", NULL), Empty),
     containerWeight |-> NumberIf(get(row, "weightNetSum", NULL)),
     containerTEU |-> NumberIf(get(row, "quantityTotalSum", NULL)),
     handlingMethodId |-> StrIf(get(row, "jobMethodId", NULL), Empty),
     finishDate |-> FinishDate(get(row, "shiftDate", NULL)),
     shipOperatorId |-> StrIf(get(row, "consigneeCode", NULL), Empty),
     containerOperatorId |-> StrIf(get(row, "consigneeId", NULL), Empty)]

\* the DTO the handler e builds of a row
Map(e, row) ==
    CASE e \in {"get_customers", "get_customer_by_id"} -> CustomerData(row)
      [] e \in {"get_cargo_categories", "get_cargo_by_id"} -> CargoData(row)
      [] e \in {"get_cargo_types", "get_cargo_type_by_id"} -> CargoTypeData(row)
      [] e \in {"get_handling_methods", "get_handling_method_by_id"} ->
           HandlingMethodData(row)
      [] e \in {"get_classes", "get_class_by_id"} -> ClassData(row)
      [] e \in {"get_ships", "get_ship_by_imo"} -> ShipData(row)
      [] e = "get_bulk_gate_volumes" -> BulkGateVolumeData(row)
      [] e = "get_bulk_quay_volumes" -> BulkQuayVolumeData(row)
      [] e = "get_container_quay_volumes" -> ContainerQuayVolumeData(row)

\* the fields schemas.py declares Optional
DateFields == {"createdDate", "modifiedDate"}
OptionalFields(e) ==
    IF e \in {"get_ships", "get_ship_by_imo"}
    THEN DateFields \cup {"shipLOA", "shipBeam", "shipGRT", "shipType",
                          "shipDWT", "shipOwner"}
    ELSE DateFields

\* the model's constructor accepts the values: None only in Optional fields
Validates(e, dto) ==
    \A f \in DOMAIN dto : dto[f] = NULL => f \in OptionalFields(e)

\* ------------------------------------------------------------------- state
VARIABLES
    now,              \* datetime.utcnow(), in ticks
    USERS_DB,         \* the user registry
    issued,           \* tokens returned by login, held by clients
    expiredRejected,  \* tokens verify_token has rejected as expired
    req,              \* the request in progress or last answered
    unit,             \* last direct call of a function of auth.py
    table,            \* the database: the rows of each FROM clause
    walk,             \* the pages a client has read of one listing
    dbcall,           \* the call of a method of DatabaseConnection in progress
    inflight          \* the handler frames running together, and their lists

vars ==
    <<now, USERS_DB, issued, expiredRejected, req, unit, table, walk, dbcall,
      inflight>>

Request(pc, endpoint, username, password, header, page, limit, verified, queryCalls, status, code, message, token, user, expires) ==
    [pc |-> pc, endpoint |-> endpoint, username |-> username,
     password |-> password, header |-> header, page |-> page, limit |-> limit,
     verified |-> verified, queryCalls |-> queryCalls, status |-> status,
     code |-> code, message |-> message, token |-> token, user |-> user,
     expires |-> expires, id |-> Absent, filters |-> NoFilters,
     calls |-> <<>>, results |-> <<>>, data |-> <<>>]

Idle == Request("idle", "none", Absent, Absent, NoHeader, NoParam, NoParam,
                FALSE, 0, 0, "", "", NoToken, Absent, 0)

\* the response fields of a request record
Respond(r, status, code, message) ==
    [r EXCEPT !.pc = "done", !.status = status, !.code = code,
              !.message = message]

\* created: the token the last create_access_token call returned, for
\* subject sub and ttl d at time t; vtoken: the token the last verify_token
\* call was given, at time vt, and its result
UnitCall(op, created, sub, t, d, vtoken, vt, result) ==
    [op |-> op, created |-> created, sub |-> sub, t |-> t, d |-> d,
     vtoken |-> vtoken, vt |-> vt, result |-> result,
     account |-> Absent, password |-> Absent, accepted |-> "none"]

NoCall == UnitCall("none", NoToken, Absent, 0, NoDelta, NoToken, 0,
                   VerifyResult("None", Absent, 0, "none"))

\* a client that has read the first pages of the listing endpoint with the
\* page size limit
Walk(endpoint, limit, pages) ==
    [endpoint |-> endpoint, limit |-> limit, pages |-> pages]
NoWalk == Walk("none", 0, <<>>)

\* a call of execute_query, execute_scalar or test_connection. conn: the
\* variable conn of get_connection is a connection, not None; open: the
\* connections open; calls, connects, closes: the calls made, the
\* connections pyodbc.connect has returned and the conn.close() calls, since
\* the process started
DbCall(op, params, pc, conn, open, calls, connects, closes, outcome, error) ==
    [op |-> op, params |-> params, pc |-> pc, conn |-> conn, open |-> open,
     calls |-> calls, connects |-> connects, closes |-> closes,
     outcome |-> outcome, error |-> error]
NoDbCall == DbCall("none", FALSE, "idle", FALSE, 0, 0, 0, 0, "none", NoFailure)

\* the frame of a running list handler: the statement it executes next
\* (pc), its request, the predicates its local `query` holds, the list
\* object its local `params` refers to and the `if <filter>:` statements it
\* has passed
Frame(pc, r, where, params, k) ==
    [pc |-> pc, req |-> r, where |-> where, params |-> params, k |-> k]
NoFrame == Frame("idle", Idle, <<>>, 0, 0)

\* no handler running; heap: the list objects of the process
NoneInFlight ==
    [frames |-> [i \in 1..MaxConcurrent |-> NoFrame],
     heap |-> [ref \in 0..MaxConcurrent |-> <<>>]]

\* the process has started, with the registry registry, the database
\* holding tbl
InitWith(registry, tbl) ==
    /\ now = 0
    /\ USERS_DB = registry
    /\ issued = {}
    /\ expiredRejected = {}
    /\ req = Idle
    /\ unit = NoCall
    /\ table = tbl
    /\ walk = NoWalk
    /\ dbcall = NoDbCall
    /\ inflight = NoneInFlight

\* a database with one cargo row
OneCargo == TableOf(vwCargo, {KeyRow(vwCargo, 1, 1, ContainerGroup, "N1")})

\* the registry as the source writes it
Init == InitWith(USERS_DB_with({}), OneCargo)

\* the registry with the disabled flags of some deployment
InitAnyRegistry == \E registry \in Registries : InitWith(registry, OneCargo)

\* the database in each of its states
InitAnyTable == \E tbl \in Tables : InitWith(USERS_DB_with({}), tbl)

\* the database with rows in use only
InitKeyTable == \E tbl \in KeyTables : InitWith(USERS_DB_with({}), tbl)

\* ------------------------------------------------------------------- clock
Lifetime == hours(ACCESS_TOKEN_EXPIRE_HOURS)

\* a tick passes
Tick ==
    /\ now % Lifetime < seconds(MaxSubSeconds)
    /\ now' = now + 1
    /\ UNCHANGED <<USERS_DB, issued, expiredRejected, req, unit, table, walk, dbcall, inflight>>

\* a second passes
Second ==
    /\ now % Lifetime < seconds(MaxSubSeconds)
    /\ now' = now + seconds(1)
    /\ UNCHANGED <<USERS_DB, issued, expiredRejected, req, unit, table, walk, dbcall, inflight>>

\* one default token lifetime passes
Elapse ==
    /\ now \div Lifetime < MaxLifetimes
    /\ now' = now + Lifetime
    /\ UNCHANGED <<USERS_DB, issued, expiredRejected, req, unit, table, walk, dbcall, inflight>>


\* ------------------------------------------------- direct calls (auth.py)
\* create_access_token({"sub": sub}, d) is called
CreateCall(sub, d) ==
    /\ unit' = UnitCall("create", create_access_token(sub, d, now), sub, now,
                        d, NoToken, 0, VerifyResult("None", Absent, 0, "none"))
    /\ UNCHANGED <<now, USERS_DB, issued, expiredRejected, req, table, walk, dbcall, inflight>>

\* verify_token(token) is called
VerifyCall(token, off) ==
    /\ unit' = [unit EXCEPT !.op = "verify", !.vtoken = token, !.vt = now,
                            !.result = verify_token(token, now, off)]
    /\ UNCHANGED <<now, USERS_DB, issued, expiredRejected, req, table, walk, dbcall, inflight>>

\* verify_password(password, USERS_DB[account].password_hash) is called
PasswordCall(account, password) ==
    /\ unit' = [NoCall EXCEPT
                  !.op = "verify_password", !.account = account,
                  !.password = password,
                  !.accepted = verify_password(password,
                                               USERS_DB[account].password_hash)]
    /\ UNCHANGED <<now, USERS_DB, issued, expiredRejected, req, table, walk, dbcall, inflight>>

\* -------------------------------------------------------------- POST login
LoginFailedMessage == "Ten dang nhap hoac mat khau khong dung"

\* the passwords the source gives its two users
ValidPassword(username) ==
    IF username = "abc" THEN LegacySentinel ELSE "admin123"

\* status, Code and Message of the login response, user being the result of
\* authenticate_user; an exception that escapes the handler is the
\* framework's 500
LoginOutcome(user) ==
    IF user.kind = "raise" THEN <<500, "", "Internal Server Error">>
    ELSE IF user.kind = "none" THEN <<401, "0", LoginFailedMessage>>
    ELSE <<200, "1", "Login thanh cong">>

\* login that notes the session in the user record
login_recording_session(username, password) ==
    LET fresh == Request("done", "login", username, password, NoHeader,
                         NoParam, NoParam, FALSE, 0, 0, "", "", NoToken,
                         Absent, 0)
        user == authenticate_user(USERS_DB, username, password)
        out == LoginOutcome(user)
        access_token ==
            create_access_token(user.username,
                                hours(ACCESS_TOKEN_EXPIRE_HOURS), now)
    IN
    /\ req.pc = "idle"
    /\ IF user.kind # "user"
       THEN /\ req' = Respond(fresh, out[1], out[2], out[3])
            /\ UNCHANGED issued
       ELSE /\ Cardinality(issued \cup {access_token}) <= MaxTokens
            /\ req' = [Respond(fresh, out[1], out[2], out[3])
                        EXCEPT !.token = access_token]
            /\ issued' = issued \cup {access_token}
    /\ USERS_DB' = IF user.kind = "user"
                   THEN [USERS_DB EXCEPT ![user.username].full_name = "in session"]
                   ELSE USERS_DB
    /\ UNCHANGED <<now, expiredRejected, unit, table, walk, dbcall, inflight>>

login(username, password) ==
    LET fresh == Request("done", "login", username, password, NoHeader,
                         NoParam, NoParam, FALSE, 0, 0, "", "", NoToken,
                         Absent, 0)
        user == authenticate_user(USERS_DB, username, password)
        out == LoginOutcome(user)
        access_token ==
            create_access_token(user.username,
                                hours(ACCESS_TOKEN_EXPIRE_HOURS), now)
    IN
    /\ req.pc = "idle"
    /\ IF user.kind # "user"
       THEN /\ req' = Respond(fresh, out[1], out[2], out[3])
            /\ UNCHANGED issued
       ELSE /\ Cardinality(issued \cup {access_token}) <= MaxTokens
            /\ req' = [Respond(fresh, out[1], out[2], out[3])
                        EXCEPT !.token = access_token]
            /\ issued' = issued \cup {access_token}
    /\ UNCHANGED <<now, USERS_DB, expiredRejected, unit, table, walk, dbcall, inflight>>

\* ------------------------------------------------------ resource requests
Headers == {NoHeader} \cup {Header("Bearer", t) : t \in ForgedBearers \cup issued}

\* the texts a client puts in the path of a by-id request
PathIds == {"1", "01", ContainerGroup}

\* a GET request arrives; id is the path parameter of a by-id request
Receive(e, h, page, limit, id) ==
    /\ req.pc = "idle"
    /\ e \in ListEndpoints \/ (page = NoParam /\ limit = NoParam)
    /\ page = NoParam \/ limit = NoParam
    /\ e \in ByIdEndpoints <=> id # Absent
    /\ req' = [Request("received", e, Absent, Absent, h, page, limit, FALSE,
                       0, 0, "", "", NoToken, Absent, 0) EXCEPT !.id = id]
    /\ UNCHANGED <<now, USERS_DB, issued, expiredRejected, unit, table, walk, dbcall, inflight>>

\* validation of the declared page and limit, and of the path parameter
\* cargo_id: int
ParamsValid(e, page, limit, id) ==
    /\ DeclaresPaging(e) => (ValidPage(page) /\ ValidLimit(limit))
    /\ e = "get_cargo_by_id" => int(id).ok

\* get_current_user, given the verify_token result v; of the TokenData it
\* returns the resource handlers read the username, protected_route the
\* expiry too
get_current_user(r, v) ==
    IF v.kind = "raise" THEN Respond(r, 500, "", "Internal Server Error")
    ELSE IF v.kind = "None"
    THEN Respond(r, 401, "", "Invalid authentication credentials")
    ELSE [r EXCEPT !.verified = TRUE, !.user = v.username,
                   !.expires = IF r.endpoint = "protected_route"
                               THEN v.exp ELSE 0]

\* the framework resolves the handler's dependencies, then validates its
\* query parameters; a dependency that raises ends the request
SolveDependencies ==
    /\ req.pc = "received"
    /\ IF ~DependsOnCurrentUser(req.endpoint)
       THEN /\ req' = IF ParamsValid(req.endpoint, req.page, req.limit, req.id)
                      THEN [req EXCEPT !.pc = "handler"]
                      ELSE Respond(req, 422, "", "validation error")
            /\ UNCHANGED expiredRejected
       ELSE IF req.header.scheme # "Bearer"
       THEN /\ \E st \in HTTPBearerRejectStatus :
                 req' = Respond(req, st, "", "Not authenticated")
            /\ UNCHANGED expiredRejected
       ELSE \E off \in TZOffsets :
              LET v == verify_token(req.header.token, now, off)
                  r == get_current_user(req, v)
              IN /\ req' = IF r.pc = "done" THEN r
                           ELSE IF ParamsValid(req.endpoint, req.page, req.limit, req.id)
                           THEN [r EXCEPT !.pc = "handler"]
                           ELSE Respond(r, 422, "", "validation error")
                 /\ expiredRejected' =
                       IF v.why = "ExpiredSignatureError"
                       THEN expiredRejected \cup {req.header.token}
                       ELSE expiredRejected
    /\ UNCHANGED <<now, USERS_DB, issued, unit, table, walk, dbcall, inflight>>

SuccessMessage == "Lay du lieu thanh cong"
NoDataMessage == "Khong co du lieu"
NotFoundMessage == "Khong tim thay"
FailureMessage == "Loi lay du lieu"

\* f"Lỗi lấy dữ liệu: {str(e)}"
FailureBody(text) == FailureMessage \o ": " \o text

\* str(e) of the ValidationError a DTO constructor raises, and of the
\* HTTPException(404) of a by-id handler
ValidationErrorText == "1 validation error"
NotFoundErrorText == "404: " \o NotFoundMessage

\* a call of db.execute_query: the statement, and what the call did
Call(stmt, o) ==
    [stmt |-> stmt, kind |-> o.kind, n |-> Len(o.rows), error |-> o.error]

\* the request after the call of db.execute_query with stmt that did o
Queried(r, stmt, o) ==
    [r EXCEPT !.queryCalls = @ + 1, !.calls = Append(@, Call(stmt, o))]

\* the body of a list handler after it has built stmt, db.execute_query
\* doing o
ListHandler(r, stmt, o) ==
    LET q == Queried(r, stmt, o)
        data == [i \in DOMAIN o.rows |-> Map(r.endpoint, o.rows[i])]
    IN IF o.kind = "error"
       THEN Respond(q, 500, "0", FailureBody(o.error.text))
       ELSE IF \E i \in DOMAIN data : ~Validates(r.endpoint, data[i])
       THEN Respond(q, 500, "0", FailureBody(ValidationErrorText))
       ELSE [Respond(q, 200, "1",
                     IF data # <<>> THEN SuccessMessage ELSE NoDataMessage)
               EXCEPT !.results = o.rows, !.data = data]

\* one by-id handler (get_class_by_id) written without the clause
ReRaisesHTTPException_but_one(e) == e \in ByIdEndpoints \ {"get_class_by_id"}

\* the handler has `except HTTPException: raise` before `except Exception`
ReRaisesHTTPException(e) == e \in ByIdEndpoints

\* raise HTTPException(404) inside the handler's try block
RaiseNotFound(r) ==
    IF ReRaisesHTTPException(r.endpoint)
    THEN Respond(r, 404, "0", NotFoundMessage)
    ELSE Respond(r, 500, "0", FailureBody(NotFoundErrorText))

\* the body of a by-id handler after it has built stmt, db.execute_query
\* doing o
ByIdHandler(r, stmt, o) ==
    LET q == Queried(r, stmt, o) IN
    IF o.kind = "error" THEN Respond(q, 500, "0", FailureBody(o.error.text))
    ELSE IF o.rows = <<>> THEN RaiseNotFound(q)
    ELSE IF ~Validates(r.endpoint, Map(r.endpoint, o.rows[1]))
    THEN Respond(q, 500, "0", FailureBody(ValidationErrorText))
    ELSE [Respond(q, 200, "1", SuccessMessage)
            EXCEPT !.results = o.rows, !.data = <<Map(r.endpoint, o.rows[1])>>]

\* the parameter a by-id handler passes: cargo_id is an int, the others the
\* path text
ByIdParam(e, id) == IF e = "get_cargo_by_id" THEN IntV(int(id).n) ELSE StrV(id)

\* get_cargo_type_by_id: int(cargo_type_id) and the query on the numeric key
\* are inside one try block whose `except ValueError` runs the query on the
\* code; o1 and o2 are what db.execute_query does for the two statements
get_cargo_type_by_id(r, o1, o2) ==
    LET type_id_int == int(r.id) IN
    IF ~type_id_int.ok THEN ByIdHandler(r, cargo_type_by_code(r.id), o2)
    ELSE IF o1.kind = "error" /\ IsValueError(o1.error)
    THEN ByIdHandler(Queried(r, cargo_type_by_number(type_id_int.n), o1),
                     cargo_type_by_code(r.id), o2)
    ELSE ByIdHandler(r, cargo_type_by_number(type_id_int.n), o1)

protected_route(r) == Respond(r, 200, "", "This is a protected route")

\* the database after the calls, in order
RECURSIVE EffectAll(_, _)
EffectAll(tbl, calls) ==
    IF calls = <<>> THEN tbl
    ELSE EffectAll(Effect(tbl, Head(calls).stmt), Tail(calls))

\* the handler runs
Handle ==
    /\ req.pc = "handler"
    /\ IF req.endpoint = "protected_route"
       THEN req' = protected_route(req)
       ELSE IF req.endpoint \in ListEndpoints
       THEN LET stmt == build_list_query(req.endpoint, req.page, req.limit,
                                         req.filters)
            IN \E o \in execute_query(table, stmt) :
                  req' = ListHandler(req, stmt, o)
       ELSE IF req.endpoint = "get_cargo_type_by_id"
       THEN \E o1 \in execute_query(table, cargo_type_by_number(int(req.id).n)),
               o2 \in execute_query(table, cargo_type_by_code(req.id)) :
                  req' = get_cargo_type_by_id(req, o1, o2)
       ELSE LET stmt == build_by_id_query(req.endpoint,
                                          ByIdParam(req.endpoint, req.id))
            IN \E o \in execute_query(table, stmt) :
                  req' = ByIdHandler(req, stmt, o)
    /\ table' = EffectAll(table, req'.calls)
    /\ UNCHANGED <<now, USERS_DB, issued, expiredRejected, unit, walk, dbcall, inflight>>

\* a request whose token and parameters have been accepted reaches its
\* handler
Admitted(e, page, limit, id, filters) ==
    [Request("handler", e, Absent, Absent, NoHeader, page, limit,
             TRUE, 0, 0, "", "", NoToken, "abc", 0)
       EXCEPT !.id = id, !.filters = filters]

Invoke(e, page, limit, id, filters) ==
    /\ req.pc = "idle"
    /\ e \in ListEndpoints \/ (page = NoParam /\ limit = NoParam)
    /\ e \in ByIdEndpoints <=> id # Absent
    /\ ParamsValid(e, page, limit, id)
    /\ req' = Admitted(e, page, limit, id, filters)
    /\ UNCHANGED <<now, USERS_DB, issued, expiredRejected, unit, table, walk, dbcall, inflight>>

\* the walk is over when a page came back with fewer rows than limit
WalkEnded(w) ==
    w.pages # <<>> /\ Len(w.pages[Len(w.pages)]) < w.limit

\* the client asks for the page after the ones it has read
NextPage(e, limit) ==
    /\ walk.endpoint \in {"none", e}
    /\ walk.endpoint = e => walk.limit = limit
    /\ ~WalkEnded(walk)
    /\ Len(walk.pages) < MaxPage
    /\ Invoke(e, Len(walk.pages) + 1, limit, Absent, NoFilters)

\* the client keeps the page of a 200 response
Collect ==
    /\ req.pc = "done"
    /\ req.status = 200
    /\ walk' = Walk(req.endpoint, req.limit, Append(walk.pages, req.results))
    /\ req' = Idle
    /\ UNCHANGED <<now, USERS_DB, issued, expiredRejected, unit, table, dbcall, inflight>>

\* the response has been sent
Reply ==
    /\ req.pc = "done"
    /\ req' = Idle
    /\ UNCHANGED <<now, USERS_DB, issued, expiredRejected, unit, table, walk, dbcall, inflight>>

\* ------------------------------------------------------ database.py calls
DbMethods == {"execute_query", "execute_scalar", "test_connection"}

\* a method of db is called, with a parameter tuple or without
DbEnter(op, params) ==
    /\ dbcall.pc = "idle"
    /\ dbcall.calls < MaxCalls
    /\ dbcall' = [dbcall EXCEPT !.op = op, !.params = params,
                                !.pc = "connect", !.conn = FALSE,
                                !.calls = @ + 1, !.outcome = "none",
                                !.error = NoFailure]
    /\ UNCHANGED <<now, USERS_DB, issued, expiredRejected, req, unit, table, walk, inflight>>

\* get_connection written with the close after the yield, not in finally
get_connection_exit_no_finally(c, raising) ==
    IF c.conn /\ ~raising
    THEN [c EXCEPT !.open = @ - 1, !.closes = @ + 1]
    ELSE c

\* get_connection: finally: if conn: conn.close(), whether the body of the
\* with statement is raising or not
get_connection_exit(c, raising) ==
    IF c.conn THEN [c EXCEPT !.open = @ - 1, !.closes = @ + 1] ELSE c

\* the exception f leaves the method: execute_query and execute_scalar log a
\* pyodbc.Error and raise it again and let any other pass, test_connection
\* catches every Exception and returns False
DbRaise(c, f) ==
    IF c.op = "test_connection"
    THEN [c EXCEPT !.pc = "returned", !.outcome = "False"]
    ELSE [c EXCEPT !.pc = "raised", !.outcome = "raise", !.error = f]

\* conn = pyodbc.connect(...): a connection, or pyodbc.Error with conn
\* still None
DbConnect ==
    /\ dbcall.pc = "connect"
    /\ \/ dbcall' = [dbcall EXCEPT !.pc = "execute", !.conn = TRUE,
                                    !.open = @ + 1, !.connects = @ + 1]
       \/ \E f \in {g \in DbFailures : g.type = "pyodbc.Error"} :
             dbcall' = DbRaise(get_connection_exit(dbcall, TRUE), f)
    /\ UNCHANGED <<now, USERS_DB, issued, expiredRejected, req, unit, table, walk, inflight>>

\* cursor.execute(query, params) or cursor.execute(query): done, or an
\* exception raised inside the with statement
DbExecute ==
    /\ dbcall.pc = "execute"
    /\ \/ dbcall' = [dbcall EXCEPT !.pc = "fetch"]
       \/ \E f \in DbFailures :
             dbcall' = DbRaise(get_connection_exit(dbcall, TRUE), f)
    /\ UNCHANGED <<now, USERS_DB, issued, expiredRejected, req, unit, table, walk, inflight>>

\* the rows are fetched and converted and the with statement is left, or
\* fetching or converting raises
DbFetch ==
    /\ dbcall.pc = "fetch"
    /\ \/ dbcall' = [get_connection_exit(dbcall, FALSE)
                       EXCEPT !.pc = "returned",
                              !.outcome = IF dbcall.op = "test_connection"
                                          THEN "True" ELSE "results"]
       \/ \E f \in DbFailures :
             dbcall' = DbRaise(get_connection_exit(dbcall, TRUE), f)
    /\ UNCHANGED <<now, USERS_DB, issued, expiredRejected, req, unit, table, walk, inflight>>

\* the caller has the result or the exception
DbLeave ==
    /\ dbcall.pc \in {"returned", "raised"}
    /\ dbcall' = [dbcall EXCEPT !.pc = "idle"]
    /\ UNCHANGED <<now, USERS_DB, issued, expiredRejected, req, unit, table, walk, inflight>>

\* ---------------------------------------------------------- specifications
Next ==
    \/ Second
    \/ Elapse
    \/ \E u \in LoginNames, p \in Passwords : login(u, p)
    \/ \E e \in Endpoints, h \in Headers, page \in Pages, limit \in Limits :
          \E id \in {Absent, "1"} : Receive(e, h, page, limit, id)
    \/ SolveDependencies
    \/ Handle
    \/ Reply

\* the API server
Spec == Init /\ [][Next]_vars

NextAuth ==
    \/ Tick
    \/ Elapse
    \/ \E sub \in Usernames, d \in Deltas : CreateCall(sub, d)
    \/ \E off \in TZOffsets :
          \E t \in ForgedTokens \cup ({unit.created} \ {NoToken}) :
             VerifyCall(t, off)
    \/ \E u \in Usernames, p \in Passwords : PasswordCall(u, p)

NextLogin ==
    \/ Second
    \/ Elapse
    \/ \E u \in LoginNames, p \in Passwords : login(u, p)
    \/ Reply

\* the login endpoint, on each registry
LoginSpec == InitAnyRegistry /\ [][NextLogin]_vars

\* the functions of auth.py called directly
AuthSpec == Init /\ [][NextAuth]_vars

\* the values a client gives an optional argument: cargoTypeId is an int,
\* the others are texts; 0 and '' included
ArgValues(a) ==
    IF a = "cargoTypeId" THEN {IntV(0), IntV(1)}
    ELSE IF a \in {"startDate", "endDate"} THEN {StrV(""), StrV(DateText(1))}
    ELSE {StrV(""), StrV("1")}

\* the optional arguments of a request, at most MaxSupplied of them sent
FilterChoices ==
    UNION {{[a \in FilterArgs |-> IF a \in S THEN g[a] ELSE NULL] :
               g \in {h \in [S -> UNION {ArgValues(a) : a \in S}] :
                         \A a \in S : h[a] \in ArgValues(a)}} :
           S \in {T \in SUBSET FilterArgs : Cardinality(T) <= MaxSupplied}}

NextQuery ==
    \/ \E e \in ListEndpoints, filters \in FilterChoices :
          \/ Invoke(e, NoParam, NoParam, Absent, filters)
          \/ DeclaresPaging(e) /\ Invoke(e, MaxPage, MaxLimit, Absent, filters)
    \/ \E e \in ByIdEndpoints, id \in PathIds :
          Invoke(e, NoParam, NoParam, id, NoFilters)
    \/ Handle
    \/ Reply

\* the list handlers called with optional arguments, and the by-id handlers
QuerySpec == Init /\ [][NextQuery]_vars

NextData ==
    \/ \E e \in ListEndpoints, page \in 1..MaxPage, limit \in 1..MaxLimit :
          Invoke(e, page, limit, Absent, NoFilters)
    \/ \E e \in ByIdEndpoints, id \in PathIds :
          Invoke(e, NoParam, NoParam, id, NoFilters)
    \/ Handle
    \/ Reply

\* the resource handlers on each state of the database
DataSpec == InitAnyTable /\ [][NextData]_vars

NextPaging ==
    \/ \E e \in ListEndpoints, limit \in 1..MaxLimit :
          DeclaresPaging(e) /\ NextPage(e, limit)
    \/ Handle
    \/ Collect
    \/ Reply

\* a client reading one listing page after page, the database not changing
PagingSpec == InitKeyTable /\ [][NextPaging]_vars

NextDb ==
    \/ \E op \in DbMethods, params \in BOOLEAN :
          (op = "test_connection" => ~params) /\ DbEnter(op, params)
    \/ DbConnect
    \/ DbExecute
    \/ DbFetch
    \/ DbLeave

\* the methods of the DatabaseConnection instance db, called one after the
\* other
DbSpec == Init /\ [][NextDb]_vars

\* ------------------------------------------------- handlers run together
\* params a module-level list, the handlers appending to the one object
ListDisplay_module_level(i) == 0

\* params = [...]: a list display evaluated in the handler's body makes a
\* new list object each time it is evaluated
ListDisplay(i) == i

\* a customer row and a volume row in use
CustomersAndVolumes ==
    [g \in Froms |->
        IF g \in {Partner, TallyJoinCargo}
        THEN {KeyRow(g, 1, 1, ContainerGroup, "N1")} ELSE {}]

InitConcurrent == InitWith(USERS_DB_with({}), CustomersAndVolumes)

\* the requests that arrive together: customers and bulk gate volumes, with
\* and without filters, first page and a later one
ConcurrentCalls ==
    LET taxed == [NoFilters EXCEPT !["customerTaxCode"] = StrV("1")]
        dated == [NoFilters EXCEPT !["startDate"] = StrV(DateText(1)),
                                   !["companyId"] = StrV("1")]
    IN {Admitted("get_customers", NoParam, NoParam, Absent, NoFilters),
        Admitted("get_customers", NoParam, NoParam, Absent, taxed),
        Admitted("get_bulk_gate_volumes", NoParam, NoParam, Absent, taxed),
        Admitted("get_bulk_gate_volumes", MaxPage, MaxLimit, Absent, dated)}

\* handler i starts: query = """... WHERE ...""", params = [...]
Begin(i, r) ==
    /\ inflight.frames[i].pc = "idle"
    /\ inflight' =
          [frames |-> [inflight.frames EXCEPT ![i] =
                          Frame("filters", r, FixedBefore(r.endpoint),
                                ListDisplay(i), 0)],
           heap |-> [inflight.heap EXCEPT ![ListDisplay(i)] =
                        BaseParams(r.endpoint)]]
    /\ UNCHANGED <<now, USERS_DB, issued, expiredRejected, req, unit, table, walk, dbcall>>

\* the next `if <filter>:` of handler i: query += " AND ... ?" and
\* params.append(<filter>) when the test passes
AppendFilter(i) ==
    LET fr == inflight.frames[i]
        fs == Filters(fr.req.endpoint)
    IN /\ fr.pc = "filters"
       /\ fr.k < Len(fs)
       /\ LET f == fs[fr.k + 1]
              v == fr.req.filters[f.arg]
          IN inflight' =
                IF Truthy(v)
                THEN [frames |-> [inflight.frames EXCEPT ![i] =
                                     [fr EXCEPT !.k = @ + 1,
                                                !.where = Append(@, f.pred)]],
                      heap |-> [inflight.heap EXCEPT ![fr.params] =
                                   Append(@, v)]]
                ELSE [inflight EXCEPT !.frames[i].k = @ + 1]
       /\ UNCHANGED <<now, USERS_DB, issued, expiredRejected, req, unit, table, walk, dbcall>>

\* the end of the query text of handler i, and params.extend([offset, limit])
ExtendWindow(i) ==
    LET fr == inflight.frames[i]
        e == fr.req.endpoint
    IN /\ fr.pc = "filters"
       /\ fr.k = Len(Filters(e))
       /\ inflight' =
             [frames |-> [inflight.frames EXCEPT ![i] =
                             [fr EXCEPT !.pc = "execute",
                                        !.where = @ \o FixedAfter(e)]],
              heap |-> [inflight.heap EXCEPT ![fr.params] =
                           @ \o (IF DeclaresPaging(e)
                                 THEN WindowParams(e, fr.req.page, fr.req.limit)
                                 ELSE <<>>)]]
       /\ UNCHANGED <<now, USERS_DB, issued, expiredRejected, req, unit, table, walk, dbcall>>

\* results = db.execute_query(query, tuple(params)) of handler i, on a
\* connection of its own, and the response built from the rows
ExecuteAndMap(i) ==
    LET fr == inflight.frames[i]
        e == fr.req.endpoint
        stmt == Statement(Verb(e), SelectList(e), From(e), fr.where,
                          GroupBy(e), OrderBy(e), DeclaresPaging(e),
                          inflight.heap[fr.params])
    IN /\ fr.pc = "execute"
       /\ \E o \in execute_query(table, stmt) :
             inflight' = [inflight EXCEPT !.frames[i] =
                            [fr EXCEPT !.pc = "done",
                                       !.req = ListHandler(fr.req, stmt, o)]]
       /\ UNCHANGED <<now, USERS_DB, issued, expiredRejected, req, unit, table, walk, dbcall>>

\* handler i returns; its frame is dropped and its list with it
Return(i) ==
    /\ inflight.frames[i].pc = "done"
    /\ inflight' =
          [frames |-> [inflight.frames EXCEPT ![i] = NoFrame],
           heap |-> [inflight.heap EXCEPT ![inflight.frames[i].params] = <<>>]]
    /\ UNCHANGED <<now, USERS_DB, issued, expiredRejected, req, unit, table, walk, dbcall>>

NextConcurrent ==
    \/ \E i \in 1..MaxConcurrent, r \in ConcurrentCalls : Begin(i, r)
    \/ \E i \in 1..MaxConcurrent : AppendFilter(i)
    \/ \E i \in 1..MaxConcurrent : ExtendWindow(i)
    \/ \E i \in 1..MaxConcurrent : ExecuteAndMap(i)
    \/ \E i \in 1..MaxConcurrent : Return(i)

\* list handlers running together, their statements interleaved
ConcurrentSpec == InitConcurrent /\ [][NextConcurrent]_vars

\* ------------------------------------------------------------------ claims

\* C1: for every registered subject and every ttl d, d = 0 included,
\* create_access_token called at time t encodes the expiry t + d, and
\* verify_token of that token at any time before the expiry returns the same
\* subject and that same expiry.
C1_RoundTrip ==
    (unit.created # NoToken /\ unit.d # NoDelta) =>
        /\ unit.created.exp.kind = "int"
        /\ seconds(unit.created.exp.v) = unit.t + unit.d
        /\ (unit.op = "verify" /\ unit.vtoken = unit.created
                /\ unit.vt < unit.t + unit.d)
              => unit.result =
                    VerifyResult("TokenData", unit.sub, unit.t + unit.d, "ok")

\* C2: verify_token fails for every token whenever it is evaluated at a time
\* greater than or equal to the token's expiresAt, the instant of expiry
\* included.
C2_FailsAtOrAfterExpiry ==
    (unit.op = "verify" /\ unit.vtoken.exp.kind = "int"
        /\ unit.vt >= seconds(unit.vtoken.exp.v))
      => unit.result.kind # "TokenData"

\* C3: authenticate_user returns no user when the username is not in the
\* registry, when the entry is disabled or when the password check fails, and
\* in each case login answers 401 and issues no token.
C3_NoUserMeans401 ==
    (req.endpoint = "login" /\ req.pc = "done"
        /\ (\/ req.username \notin DOMAIN USERS_DB
            \/ USERS_DB[req.username].disabled
            \/ req.password # ValidPassword(req.username)))
      => /\ authenticate_user(USERS_DB, req.username, req.password).kind = "none"
         /\ req.status = 401
         /\ req.token = NoToken

\* C4: for every user of the registry, login with the user's valid password
\* returns 200 with Code "1" and an AccessToken that verify_token accepts.
C4_RegisteredLoginSucceeds ==
    (req.endpoint = "login" /\ req.pc = "done"
        /\ req.username \in DOMAIN USERS_DB
        /\ req.password = ValidPassword(req.username))
      => /\ req.status = 200
         /\ req.code = "1"
         /\ \A off \in TZOffsets :
               verify_token(req.token, now, off).kind = "TokenData"

\* C5: a login with a registered username and a wrong password gets the
\* response a login with an unknown username gets: 401, Code "0", the same
\* message.
C5_SameFailureResponse ==
    (req.endpoint = "login" /\ req.pc = "done"
        /\ req.username \in DOMAIN USERS_DB
        /\ req.password # ValidPassword(req.username))
      => <<req.status, req.code, req.message>> =
            LoginOutcome(authenticate_user(USERS_DB, "invalid_user",
                                           req.password))

\* C6: on every resource endpoint db.execute_query is invoked for a request
\* only after verify_token has succeeded for that request's bearer token.
C6_VerifyPrecedesQuery ==
    req.endpoint \in ResourceEndpoints =>
        /\ req.pc = "handler" => req.verified
        /\ req.queryCalls > 0 => req.verified

\* a resource request with a verified token has executed its query
C6_Witness ==
    /\ req.endpoint \in ResourceEndpoints
    /\ req.pc = "done"
    /\ req.verified
    /\ req.queryCalls = 1
    /\ req.header.token \in issued

\* C7: a request to a resource endpoint without Authorization header, or with
\* a bearer token that is invalid or expired, is answered 401.
C7_Unauthenticated401 ==
    (req.endpoint \in ResourceEndpoints /\ req.pc = "done" /\ ~req.verified)
      => req.status = 401

\* C8: verify_token returns None for every token whose signature is invalid,
\* whose payload is malformed (a signed payload without exp included) or
\* whose subject is missing, and it never fails in another way.
C8_BadTokensReturnNone ==
    unit.op = "verify" =>
        /\ unit.result.kind # "raise"
        /\ (\/ unit.vtoken.fmt # "jwt"
            \/ unit.vtoken.sig # "valid"
            \/ unit.vtoken.exp.kind # "int"
            \/ unit.vtoken.sub = Absent) => unit.result.kind = "None"

OutOfRange(page, limit) ==
    \/ (limit # NoParam /\ (limit < 1 \/ limit > 100))
    \/ (page # NoParam /\ page < 1)

Rejected(r) ==
    /\ r.queryCalls = 0
    /\ r.pc # "handler"
    /\ r.pc = "done" => r.status \in {401, 403, 422, 500}

C11_PagesPartition ==
    walk.endpoint # "none" =>
        LET stmt == build_list_query(walk.endpoint, 1, walk.limit, NoFilters)
            full == {Converted(r) : r \in ResultSet(table, stmt)}
            seen(i) == {walk.pages[i][k] : k \in DOMAIN walk.pages[i]}
        IN /\ \A i, j \in DOMAIN walk.pages : i # j => seen(i) \cap seen(j) = {}
           /\ \A i, j \in DOMAIN walk.pages :
                 i < j => \A a \in seen(i), b \in seen(j) :
                             ~Precedes(b, a, stmt.orderBy)
           /\ WalkEnded(walk) => UNION {seen(i) : i \in DOMAIN walk.pages} = full

\* C12: in the statement a list handler builds, the predicate of an optional
\* filter is present exactly when the client supplied a value for the
\* argument, whatever the value; with every filter omitted the statement is
\* the base query.
C12_FilterIffSupplied ==
    (req.endpoint \in ListEndpoints /\ req.calls # <<>>) =>
        LET stmt == req.calls[1].stmt
            fs == Filters(req.endpoint)
            has(p) == \E i \in DOMAIN stmt.where : stmt.where[i] = p
        IN /\ \A k \in DOMAIN fs :
                 req.filters[fs[k].arg] # NULL <=> has(fs[k].pred)
           /\ (\A k \in DOMAIN fs : req.filters[fs[k].arg] = NULL)
                 => stmt = build_list_query(req.endpoint, req.page, req.limit,
                                            NoFilters)

\* C13: when the query of a list handler has run without an error the
\* response is 200 with code "1"; the message is the success message when
\* data holds at least one element and the no-data message when it is empty.
C13_ListAnswers200 ==
    (req.pc = "done" /\ req.endpoint \in ListEndpoints /\ req.calls # <<>>
        /\ req.calls[Len(req.calls)].kind = "rows")
      => /\ req.status = 200
         /\ req.code = "1"
         /\ Len(req.data) = req.calls[Len(req.calls)].n
         /\ req.message = IF req.data # <<>> THEN SuccessMessage
                          ELSE NoDataMessage

\* C14: when the query of a by-id handler has run without an error and
\* returned no row the response is 404 with code "0", not 500; the handler
\* answers 200 only when the query returned at least one row.
C14_NoRowMeans404 ==
    (req.pc = "done" /\ req.endpoint \in ByIdEndpoints /\ req.calls # <<>>)
      => LET last == req.calls[Len(req.calls)] IN
         /\ (last.kind = "rows" /\ last.n = 0)
               => (req.status = 404 /\ req.code = "0")
         /\ req.status = 200
               => (last.kind = "rows" /\ last.n >= 1 /\ Len(req.data) = 1)

\* a by-id request whose query returned no row has been answered 404
C14_Witness ==
    /\ req.pc = "done"
    /\ req.endpoint \in ByIdEndpoints
    /\ req.verified
    /\ req.calls # <<>>
    /\ req.calls[Len(req.calls)].kind = "rows"
    /\ req.calls[Len(req.calls)].n = 0
    /\ req.status = 404

\* C15: whenever a call of db.execute_query made by a resource handler
\* raises, the response is 500 with code "0": never 200, never 404.
C15_DbFailureMeans500 ==
    (req.pc = "done" /\ \E i \in DOMAIN req.calls : req.calls[i].kind = "error")
      => (req.status = 500 /\ req.code = "0")

\* C16: the body of a 500 response to a failed query does not depend on the
\* text of the exception: it is the same for every failure the database
\* layer raises.
C16_FailureTextNotInBody ==
    (req.pc = "done" /\ req.status = 500 /\ req.calls # <<>>
        /\ req.calls[Len(req.calls)].kind = "error")
      => \A f \in DbFailures : req.message = FailureBody(f.text)

\* C17: get_cargo_type_by_id matches an id that parses as an integer only
\* against cargoGroupId, with the integer as parameter, and any other id only
\* against cargoGroupCode; the row of a 200 response for an integer id is
\* the row with that numeric key.
C17_NumericIdByKeyOnly ==
    (req.pc = "done" /\ req.endpoint = "get_cargo_type_by_id")
      => LET type_id_int == int(req.id) IN
         IF type_id_int.ok
         THEN /\ \A i \in DOMAIN req.calls :
                    req.calls[i].stmt = cargo_type_by_number(type_id_int.n)
              /\ req.status = 200
                    => req.results[1]["cargoGroupId"] = IntV(type_id_int.n)
         ELSE /\ \A i \in DOMAIN req.calls :
                    req.calls[i].stmt = cargo_type_by_code(req.id)
              /\ req.status = 200
                    => req.results[1]["cargoGroupCode"] = StrV(req.id)

\* C18: in a 200 response of a resource endpoint no DTO field other than
\* createdDate and modifiedDate is null, and no field holds the text "None"
\* in place of a null column.
C18_NoNullFields ==
    (req.pc = "done" /\ req.status = 200 /\ req.endpoint # "protected_route")
      => \A i \in DOMAIN req.data :
            \A f \in DOMAIN req.data[i] :
               /\ req.data[i][f] = NULL => f \in DateFields
               /\ req.data[i][f] # StrV("None")

\* C19: verify_password returns true or false for every account of the
\* registry: for the account whose stored credential is the legacy sentinel,
\* true exactly when the password equals the sentinel; for every other
\* account, true exactly when the bcrypt hash of the password is the stored
\* credential.
C19_PasswordCheckDecides ==
    unit.op = "verify_password" =>
        LET stored == USERS_DB[unit.account].password_hash IN
        /\ unit.accepted \in {"true", "false"}
        /\ stored = LegacySentinel
              => (unit.accepted = "true" <=> unit.password = LegacySentinel)
        /\ stored # LegacySentinel
              => (unit.accepted = "true" <=> stored = BcryptOf(unit.password))

\* C20: no step of the server (login, list, by-id, protected route) changes
\* the database or the user registry, and every statement a request has
\* passed to db.execute_query is a SELECT.
C20_ReadOnly ==
    [][/\ table' = table
       /\ USERS_DB' = USERS_DB
       /\ \A i \in DOMAIN req'.calls : req'.calls[i].stmt.verb = "SELECT"]_vars

\* after a login, a request has queried the database and been given rows
C20_Witness ==
    /\ issued # {}
    /\ req.pc = "done"
    /\ req.calls # <<>>
    /\ req.status = 200
    /\ req.data # <<>>
    /\ table = OneCargo
    /\ USERS_DB = USERS_DB_with({})

\* C21: in the statement of a paginated list handler the parameter tuple
\* has one value per "?" of the text, in the order of the text: the fixed
\* patterns, then the value of each filter whose predicate was appended, in
\* the order appended, then offset = (page - 1) * limit and limit.
C21_ParamsFollowPlaceholders ==
    (req.endpoint \in ListEndpoints /\ DeclaresPaging(req.endpoint)
        /\ req.calls # <<>>)
      => LET stmt == req.calls[1].stmt
             e == req.endpoint
             fs == Filters(e)
             n == Placeholders(stmt.where, Len(stmt.where))
             limit == LimitOrDefault(e, req.limit)
         IN /\ Len(stmt.params) = n + 2
            /\ \A i \in DOMAIN stmt.where :
                  /\ i <= Len(FixedBefore(e))
                        => SubSeq(stmt.params,
                                  Placeholders(stmt.where, i - 1) + 1,
                                  Placeholders(stmt.where, i))
                             = SubSeq(BaseParams(e),
                                      Placeholders(FixedBefore(e), i - 1) + 1,
                                      Placeholders(FixedBefore(e), i))
                  /\ \A k \in DOMAIN fs :
                        stmt.where[i] = fs[k].pred
                          => stmt.params[Placeholders(stmt.where, i)]
                               = req.filters[fs[k].arg]
            /\ stmt.params[n + 1] = IntV((PageOr1(req.page) - 1) * limit)
            /\ stmt.params[n + 2] = IntV(limit)

\* get_bulk_gate_volumes has been called for a page after the first with two
\* filters, and has passed its statement to db.execute_query
C21_Witness ==
    /\ req.pc = "done"
    /\ req.endpoint = "get_bulk_gate_volumes"
    /\ req.page > 1
    /\ req.calls # <<>>
    /\ Len(req.calls[1].stmt.params) = 6
    /\ Truthy(req.filters["endDate"])
    /\ Truthy(req.filters["handlingMethodId"])

\* C22: the statement of get_customers has a predicate for each of the five
\* documented filters the client supplied with a non-empty value, and the
\* predicates of startDate and endDate compare the row's creation date.
C22_CustomerFiltersApplied ==
    (req.endpoint = "get_customers" /\ req.calls # <<>>)
      => LET stmt == req.calls[1].stmt
             fs == Filters("get_customers")
         IN \A a \in CustomerFilterArgs :
               Truthy(req.filters[a])
                 => \E i \in DOMAIN stmt.where, k \in DOMAIN fs :
                       /\ fs[k].arg = a
                       /\ stmt.where[i] = fs[k].pred
                       /\ a \in {"startDate", "endDate"}
                             => stmt.where[i].col = "createTime"

\* C23: mapping a returned row to its DTO never fails, whichever columns of
\* the row are null, the key columns included: a request whose query has run
\* without an error is not answered 500.
C23_MappingNeverFails ==
    (req.pc = "done" /\ req.endpoint \in ResourceEndpoints /\ req.calls # <<>>
        /\ req.calls[Len(req.calls)].kind = "rows")
      => /\ req.status # 500
         /\ req.message # FailureBody(ValidationErrorText)

\* C24: in a 200 response of get_ships or get_ship_by_imo, createdDate and
\* modifiedDate of a row whose createTime / updateTime is not null are the
\* millisecond timestamp of that time ending in "Z", and are null only when
\* the column is null.
C24_ShipDatesEndInZ ==
    (req.pc = "done" /\ req.status = 200
        /\ req.endpoint \in {"get_ships", "get_ship_by_imo"})
      => \A i \in DOMAIN req.data :
            LET row == req.results[i]
                stamp(v) == StrV(DateText(DayOf(v)) \o "T00:00:00.000Z")
            IN /\ req.data[i].createdDate =
                    IF row["createTime"] = NULL THEN NULL
                    ELSE stamp(row["createTime"])
               /\ req.data[i].modifiedDate =
                    IF row["updateTime"] = NULL THEN NULL
                    ELSE stamp(row["updateTime"])

\* C25: at most one connection is open during a call of execute_query,
\* execute_scalar or test_connection; when the call has returned or raised,
\* and when no call is in progress, no connection is open and every
\* connection acquired has been closed once; a failed connect closes nothing.
C25_ConnectionsClosed ==
    /\ dbcall.open \in {0, 1}
    /\ dbcall.closes <= dbcall.connects
    /\ dbcall.pc \in {"idle", "returned", "raised"}
          => (dbcall.open = 0 /\ dbcall.closes = dbcall.connects)

\* a call that had acquired a connection has raised, after an earlier call
\* that failed to connect
C25_Witness ==
    /\ dbcall.pc = "raised"
    /\ dbcall.conn
    /\ dbcall.error.type = "UnicodeDecodeError"
    /\ dbcall.calls > dbcall.connects
    /\ dbcall.closes = dbcall.connects
    /\ dbcall.open = 0

\* C26: every statement a resource handler passes to db.execute_query has
\* the active-row predicate of its resource and not the other one:
\* rowDeleted = 0 for customers, cargo categories, cargo types and ships,
\* rowDeleted IS NULL for handling methods, classes and the three volumes.
C26_ActiveRowPredicate ==
    req.endpoint \in ResourceEndpoints =>
        LET zero == req.endpoint \in
                       {"get_customers", "get_customer_by_id",
                        "get_cargo_categories", "get_cargo_by_id",
                        "get_cargo_types", "get_cargo_type_by_id",
                        "get_ships", "get_ship_by_imo"}
            has(where, col, op) ==
                \E i \in DOMAIN where : where[i].col = col /\ where[i].op = op
        IN \A c \in DOMAIN req.calls :
              LET where == req.calls[c].stmt.where IN
              IF zero
              THEN /\ \E i \in DOMAIN where :
                         /\ where[i].col = "rowDeleted"
                         /\ where[i].op = "= lit"
                         /\ where[i].lit = IntV(0)
                   /\ ~has(where, "rowDeleted", "IS NULL")
              ELSE /\ has(where, "rowDeleted", "IS NULL")
                   /\ ~has(where, "rowDeleted", "= lit")

\* get_customers has queried with a filter applied, a by-id handler of the
\* other convention being reachable as well
C26_Witness ==
    /\ req.pc = "done"
    /\ req.endpoint = "get_customers"
    /\ Truthy(req.filters["customerTaxCode"])
    /\ req.calls # <<>>
    /\ Len(req.calls[1].stmt.where) = 2

\* C27: a request to a resource handler calls db.execute_query at most once,
\* and after a call that raised the handler makes no further call.
C27_AtMostOneQuery ==
    req.endpoint \in ResourceEndpoints =>
        /\ req.queryCalls <= 1
        /\ Len(req.calls) <= 1
        /\ \A i \in DOMAIN req.calls :
              req.calls[i].kind = "error" => i = Len(req.calls)

\* C28: handlers that run together share no list: the statement, the
\* parameter tuple and the response of each are the ones of the same request
\* handled alone, whatever the interleaving of their steps.
C28_SameAsAlone ==
    \A i \in 1..MaxConcurrent :
        LET fr == inflight.frames[i]
            start == Admitted(fr.req.endpoint, fr.req.page, fr.req.limit,
                              fr.req.id, fr.req.filters)
            alone == build_list_query(fr.req.endpoint, fr.req.page,
                                      fr.req.limit, fr.req.filters)
        IN /\ fr.pc # "idle" =>
                 \A j \in 1..MaxConcurrent :
                    (j # i /\ inflight.frames[j].pc # "idle")
                       => inflight.frames[j].params # fr.params
           /\ fr.pc = "execute" =>
                 /\ fr.where = alone.where
                 /\ inflight.heap[fr.params] = alone.params
           /\ fr.pc = "done" =>
                 \E o \in execute_query(table, alone) :
                    fr.req = ListHandler(start, alone, o)

\* a volumes request has been answered with its row while a customers
\* request that started before the answer is still building its query
C28_Witness ==
    \E i, j \in 1..MaxConcurrent :
        /\ inflight.frames[i].pc = "done"
        /\ inflight.frames[i].req.endpoint = "get_bulk_gate_volumes"
        /\ inflight.frames[i].req.status = 200
        /\ Len(inflight.frames[i].req.calls[1].stmt.params) = 6
        /\ inflight.frames[j].pc = "filters"
        /\ inflight.frames[j].req.endpoint = "get_customers"
        /\ inflight.frames[j].k = 3
        /\ Len(inflight.heap[inflight.frames[j].params]) = 1

\* C29: the token service keeps no session state: a login leaves the user
\* registry as it was, and every token a login has returned is accepted by
\* verify_token at every time before its own expiry, whichever logins came
\* after it, so that several tokens of one subject are valid together.
C29_NoSessionState ==
    /\ USERS_DB = USERS_DB_with({})
    /\ \A t \in issued : \A off \in TZOffsets :
          timegm(now) < t.exp.v =>
              verify_token(t, now, off) =
                 VerifyResult("TokenData", t.sub,
                              fromtimestamp(t.exp.v, off), "ok")

\* a resource request is answered with the older of two tokens of one
\* subject, the newer one being valid too
C29_Witness ==
    \E t1, t2 \in issued :
        /\ t1.sub = t2.sub
        /\ t1.exp.v < t2.exp.v
        /\ timegm(now) < t1.exp.v
        /\ req.endpoint \in ResourceEndpoints
        /\ req.pc = "done"
        /\ req.status = 200
        /\ req.header.token = t1
        /\ verify_token(t2, now, 0).kind = "TokenData"

\* C30: every 200 response of a list endpoint holds at most `limit` rows
\* (the default when limit is not sent), hence at most 100, whatever the
\* number of rows that match.
C30_AtMostLimitRows ==
    (req.pc = "done" /\ req.endpoint \in ListEndpoints /\ req.status = 200)
      => /\ Len(req.data) <= LimitOrDefault(req.endpoint, req.limit)
         /\ Len(req.data) <= 100

=============================================================================
